---- MODULE Spec2Model ----
(***************************************************************************)
(* batheart: a daemon that polls the battery and toggles the ideapad       *)
(* conservation-mode switch (src/cmd/root.go).                             *)
(*                                                                         *)
(* The model follows Execute -> parseConfig -> runDaemon.  The main        *)
(* goroutine is the select loop of runDaemon; the config watcher callback  *)
(* runs on its own goroutine and shares only the captured variable cfg     *)
(* (and the package variable k, which the loop never reads) with it.       *)
(***************************************************************************)
EXTENDS Integers, Sequences, FiniteSets, TLC

(***************************************************************************)
(* Bounds of the model.                                                    *)
(***************************************************************************)
\* battery levels 0..MaxCap are sampled
MaxCap == 1
\* thresholds 0..MaxThreshold (plus the default) can stand in the config file
MaxThreshold == 1
\* arguments 0..MaxRangeArg (plus the top two values of uint) are given to
\* inThresholdRange when it is called on its own
MaxRangeArg == 5

(***************************************************************************)
(* Program constants.                                                      *)
(***************************************************************************)
\* time.Second and time.Minute, in seconds
Second == 1
Minute == 60
\* loadDefaultConfig: Threshold: 80
DefaultThreshold == 80
\* The largest value of the field Threshold (Go uint).  The model checker
\* computes on 32-bit integers, so the top of the uint range is placed at
\* the largest of them; battery.Level() is a uint8, so every comparison of
\* a capacity with a wrapped threshold comes out as with 64 bits.
MaxUint == 2147483647

Caps == 0..MaxCap
Thresholds == (0..MaxThreshold) \cup {DefaultThreshold}

(***************************************************************************)
(* The config file on disk, as k.Load(provider, parser) sees it.           *)
(*   missing   : os.ErrNotExist                                            *)
(*   malformed : unreadable or not TOML (any other load error)             *)
(*   badtype   : TOML whose threshold does not decode into a uint          *)
(*   ok        : TOML with threshold = t                                   *)
(***************************************************************************)
FileOf(kind, t) == [kind |-> kind, threshold |-> t]
FileStates ==
    {FileOf("missing", 0), FileOf("malformed", 0), FileOf("badtype", 0)}
        \cup {FileOf("ok", t) : t \in Thresholds}

\* the key map of the koanf instance k: empty, or holding threshold
KEmpty == [kind |-> "empty", threshold |-> 0]
KOf(kind, t) == [kind |-> kind, threshold |-> t]

\* *config: <<>> is nil, <<c>> points to c
NilCfg == <<>>

\* no call of inThresholdRange on its own
NoRange == [state |-> "none", capacity |-> 0, threshold |-> 0,
            result |-> FALSE, wrapped |-> FALSE]

\* the record of a poll cycle (history)
NoCycle ==
    [kind |-> "none", capacity |-> 0, charging |-> FALSE, chErr |-> FALSE,
     threshold |-> 0, writes |-> <<>>, pending |-> "none"]

VARIABLES
    pc,            \* "start", "loop", "done" (returned), "fatal" (log.Fatalf), "panic"
    exitCause,     \* why the process ended
    file,          \* the config file on disk
    k,             \* the package variable k (koanf instance)
    cfg,           \* the variable cfg of runDaemon, captured by the callback
    evt,           \* a file-change notification is waiting for the watcher
    wpc,           \* watcher callback: "idle", or "assign" (parseConfig returned)
    parsed,        \* the value parseConfig returned to the callback
    sigChan,       \* number of signals buffered in sigChan (capacity 1)
    interval,      \* the ticker's period in seconds, 0 before NewTicker
    tickerStopped, \* ticker.Stop() has run
    prevCapacity,  \* prevCapacity of runDaemon
    switch,        \* content of the conservation_mode file
    exitTrace,     \* the deferred calls run on return, in order
    cyc,           \* history: the poll cycle the last step ran; kind "created" when the
                   \* last step was Execute writing the default config file; NoCycle
                   \* after any other step
    unwritten,     \* history: value of a failed write not yet followed by another write
    lastGood,      \* history: threshold of the last config loaded and parsed without error
    swapped,       \* history: the callback's last assignment changed the threshold in cfg
    rng            \* a call of inThresholdRange on its own: arguments and result

vars ==
    <<pc, exitCause, file, k, cfg, evt, wpc, parsed, sigChan, interval,
      tickerStopped, prevCapacity, switch, exitTrace, cyc, unwritten,
      lastGood, swapped, rng>>

(***************************************************************************)
(* inThresholdRange: capacity > cfg.Threshold-1 && capacity <              *)
(* cfg.Threshold+1 on Go uint, whose - and + wrap around.                  *)
(***************************************************************************)
UintDec(t) == IF t = 0 THEN MaxUint ELSE t - 1
UintInc(t) == IF t = MaxUint THEN 0 ELSE t + 1

inThresholdRangeBand(capacity, c) ==
    capacity >= UintDec(c[1].Threshold) /\ capacity <= UintInc(c[1].Threshold)
inThresholdRange(capacity, c) ==
    capacity > UintDec(c[1].Threshold) /\ capacity < UintInc(c[1].Threshold)

(***************************************************************************)
(* setConservationMode: the bytes written for b.                           *)
(***************************************************************************)
EnabledBytes(b) == IF b THEN "1" ELSE "0"

(***************************************************************************)
(* koanf as parseConfig uses it.  k.Load returns the provider's or the     *)
(* parser's error and merges the file's keys into k only without error;    *)
(* k.Unmarshal decodes the key threshold into config.Threshold, which      *)
(* stays 0 when k holds no such key.                                       *)
(***************************************************************************)
LoadErr(f) ==
    CASE f.kind = "missing" -> "notexist"
      [] f.kind = "malformed" -> "other"
      [] OTHER -> "nil"
LoadKeys(kk, f) == IF LoadErr(f) = "nil" THEN KOf(f.kind, f.threshold) ELSE kk
UnmarshalErr(kk) == kk.kind = "badtype"
UnmarshalCfg(kk) == [Threshold |-> IF kk.kind = "ok" THEN kk.threshold ELSE 0]

(***************************************************************************)
(* parseConfig after k.Load: proceed is what errHandler returned, kk is k  *)
(* then.  fatal: logCfgIssue("parse") ended the process (log.Fatalf).      *)
(***************************************************************************)
parseConfigLogsOnly(kk, proceed) ==
    IF ~proceed THEN [fatal |-> FALSE, ret |-> NilCfg]
    ELSE IF UnmarshalErr(kk) THEN [fatal |-> FALSE, ret |-> NilCfg]
    ELSE [fatal |-> FALSE, ret |-> <<UnmarshalCfg(kk)>>]
parseConfig(kk, proceed) ==
    IF ~proceed THEN [fatal |-> FALSE, ret |-> NilCfg]
    ELSE IF UnmarshalErr(kk) THEN [fatal |-> TRUE, ret |-> NilCfg]
    ELSE [fatal |-> FALSE, ret |-> <<UnmarshalCfg(kk)>>]

(***************************************************************************)
(* handleConfigError(dirPath, fullPath)(err) at startup, with              *)
(* acquireConfig, loadDefaultConfig, createConfigDir and createConfigFile. *)
(* Every `return false` in them follows a logCfgIssue, which is            *)
(* log.Fatalf: fatal says the process ended there.                         *)
(***************************************************************************)
loadDefaultConfigNone(kk) == kk
loadDefaultConfig(kk) == KOf("ok", DefaultThreshold)
createConfigFile(kk) == FileOf(kk.kind, kk.threshold)

handleConfigError(err, kk, f, mkdirOK, marshalOK, writeOK) ==
    IF err = "nil"
    THEN [proceed |-> TRUE, fatal |-> FALSE, k |-> kk, file |-> f]
    ELSE IF err # "notexist"
    THEN [proceed |-> FALSE, fatal |-> TRUE, k |-> kk, file |-> f]
    ELSE LET kd == loadDefaultConfig(kk) IN
         IF mkdirOK /\ marshalOK /\ writeOK
         THEN [proceed |-> TRUE, fatal |-> FALSE, k |-> kd,
               file |-> createConfigFile(kd)]
         ELSE [proceed |-> FALSE, fatal |-> TRUE, k |-> kd, file |-> f]

\* the errHandler the watcher callback passes: func(err error) bool { return true }
reloadErrHandler(err) == TRUE

Init ==
    /\ pc = "start"
    /\ exitCause = "none"
    /\ file \in FileStates
    /\ k = KEmpty
    /\ cfg = NilCfg
    /\ evt = FALSE
    /\ wpc = "idle"
    /\ parsed = NilCfg
    /\ sigChan = 0
    /\ interval = 0
    /\ tickerStopped = FALSE
    /\ prevCapacity = 0
    /\ switch = "unset"
    /\ exitTrace = <<>>
    /\ cyc = NoCycle
    /\ unwritten = "none"
    /\ lastGood = 0
    /\ swapped = FALSE
    /\ rng = NoRange

(***************************************************************************)
(* Execute up to the first select of runDaemon: UserConfigDir,             *)
(* parseConfig with handleConfigError, signal.Notify, provider.Watch,      *)
(* NewTicker(time.Minute), the two defers and prevCapacity := 0.           *)
(***************************************************************************)
\* ticker := time.NewTicker(time.Minute)
InitialIntervalSecond == Second
InitialInterval == Minute

Execute(dirOK, mkdirOK, marshalOK, writeOK, watchOK) ==
    /\ pc = "start"
    /\ IF ~dirOK
       THEN /\ pc' = "fatal"
            /\ exitCause' = "config"
            /\ UNCHANGED <<file, k, cfg, interval, lastGood, cyc>>
       ELSE LET err == LoadErr(file)
                h == handleConfigError(err, LoadKeys(k, file), file,
                                       mkdirOK, marshalOK, writeOK)
                p == parseConfig(h.k, h.proceed)
            IN  /\ file' = h.file
                /\ k' = h.k
                /\ cyc' = IF err = "notexist" /\ ~h.fatal
                          THEN [NoCycle EXCEPT !.kind = "created"]
                          ELSE NoCycle
                /\ IF h.fatal \/ p.fatal
                   THEN /\ pc' = "fatal"
                        /\ exitCause' = "config"
                        /\ UNCHANGED <<cfg, interval, lastGood>>
                   ELSE /\ cfg' = p.ret
                        /\ lastGood' = IF p.ret # NilCfg
                                       THEN p.ret[1].Threshold ELSE lastGood
                        /\ IF ~watchOK
                           THEN /\ pc' = "done"
                                /\ exitCause' = "watch"
                                /\ UNCHANGED interval
                           ELSE /\ pc' = "loop"
                                /\ exitCause' = "none"
                                /\ interval' = InitialInterval
    /\ UNCHANGED <<evt, wpc, parsed, sigChan, tickerStopped, prevCapacity,
                   switch, exitTrace, unwritten, swapped, rng>>

(***************************************************************************)
(* One poll cycle of runDaemon, `case <-ticker.C`.                         *)
(***************************************************************************)
\* if capacity == prevCapacity { continue }
ShouldSkipNever(capacity, prev) == FALSE
ShouldSkipZero(capacity, prev) == capacity = 0
ShouldSkip(capacity, prev) == capacity = prev

\* The if / else if / else on inThresholdRange and charging, with the
\* trailing setConservationMode(true): the ticker's new period and the
\* arguments of the setConservationMode calls of the cycle, in order.
DecideNoContinue(capacity, charging, c) ==
    IF inThresholdRange(capacity, c) /\ charging
    THEN [interval |-> Second, calls |-> <<TRUE>>]
    ELSE IF ~charging
    THEN [interval |-> 5 * Minute, calls |-> <<FALSE, TRUE>>]
    ELSE [interval |-> 5 * Minute, calls |-> <<TRUE>>]
DecideOffRangeDisables(capacity, charging, c) ==
    IF inThresholdRange(capacity, c) /\ charging
    THEN [interval |-> Second, calls |-> <<TRUE>>]
    ELSE [interval |-> 5 * Minute, calls |-> <<FALSE>>]
DecideByRange(capacity, charging, c) ==
    IF inThresholdRange(capacity, c) /\ charging
    THEN [interval |-> Second, calls |-> <<TRUE>>]
    ELSE IF ~charging
    THEN [interval |-> 5 * Minute, calls |-> <<FALSE>>]
    ELSE [interval |-> 5 * Minute, calls |-> <<FALSE>>]
Decide(capacity, charging, c) ==
    IF inThresholdRange(capacity, c) /\ charging
    THEN [interval |-> Second, calls |-> <<TRUE>>]
    ELSE IF ~charging
    THEN [interval |-> 5 * Minute, calls |-> <<FALSE>>]
    ELSE [interval |-> 5 * Minute, calls |-> <<TRUE>>]

\* the os.WriteFile calls of setConservationMode, each with its outcome
WritesOf(calls, wOK) ==
    [i \in 1..Len(calls) |-> [val |-> EnabledBytes(calls[i]), ok |-> wOK]]
\* the control file after them
SwitchAfter(sw, ws) ==
    IF ws # <<>> /\ ws[Len(ws)].ok THEN ws[Len(ws)].val ELSE sw

\* the deferred calls of runDaemon in the order they run on return (LIFO):
\* log.Println("Batheart has been shut down"), then ticker.Stop()
DeferredCallsInOrder == <<"stop", "log">>
DeferredCalls == <<"log", "stop">>

\* what battery.IsCharging() gives: "yes", "no", or "err" (false and an error)
ChargingInputs == {"yes", "no", "err"}

\* charging, err := battery.IsCharging(): the value the cycle goes on with;
\* the error is logged and nothing else
ChargingOfErrAsCharging(ch) == ch # "no"
ChargingOf(ch) == ch = "yes"

\* setConservationMode reports a failed os.WriteFile with log.Printf, which
\* returns, not with log.Fatalf
writeErrorFatalf(ws) == ws # <<>> /\ ~ws[Len(ws)].ok
writeErrorFatal(ws) == FALSE

\* battery.Level() fails: the zero capacity it returns is not used
PollReadErrorUsesZero ==
    /\ pc = "loop"
    /\ cyc' = [NoCycle EXCEPT !.kind = "readerr", !.pending = unwritten]
    /\ prevCapacity' = 0
    /\ UNCHANGED <<pc, exitCause, file, k, cfg, evt, wpc, parsed, sigChan,
                   interval, tickerStopped, switch, exitTrace,
                   unwritten, lastGood, swapped, rng>>

\* battery.Level() fails: log and continue
PollReadError ==
    /\ pc = "loop"
    /\ cyc' = [NoCycle EXCEPT !.kind = "readerr", !.pending = unwritten]
    /\ UNCHANGED <<pc, exitCause, file, k, cfg, evt, wpc, parsed, sigChan,
                   interval, tickerStopped, prevCapacity, switch, exitTrace,
                   unwritten, lastGood, swapped, rng>>

\* battery.Level() gives c; ch and wOK are the outcomes of IsCharging and
\* of os.WriteFile, were the cycle to reach them
PollCycle(c, ch, wOK) ==
    /\ pc = "loop"
    /\ LET charging == ChargingOf(ch) IN
       IF ShouldSkip(c, prevCapacity)
       THEN /\ cyc' = [NoCycle EXCEPT !.kind = "skip", !.capacity = c,
                                      !.charging = charging,
                                      !.pending = unwritten]
            /\ UNCHANGED <<pc, exitCause, prevCapacity, interval, switch,
                           unwritten, exitTrace, tickerStopped>>
       ELSE IF cfg = NilCfg
       THEN \* nil pointer dereference in inThresholdRange: the goroutine
            \* panics, the deferred calls run, the process dies
            /\ prevCapacity' = c
            /\ cyc' = [NoCycle EXCEPT !.kind = "panic", !.capacity = c]
            /\ pc' = "panic"
            /\ exitCause' = "panic"
            /\ exitTrace' = DeferredCalls
            /\ tickerStopped' = TRUE
            /\ UNCHANGED <<interval, switch, unwritten>>
       ELSE LET d == Decide(c, charging, cfg)
                ws == WritesOf(d.calls, wOK)
            IN  /\ prevCapacity' = c
                /\ interval' = d.interval
                /\ switch' = SwitchAfter(switch, ws)
                /\ unwritten' = IF ws = <<>> THEN unwritten
                                ELSE IF ws[Len(ws)].ok THEN "none"
                                ELSE ws[Len(ws)].val
                /\ cyc' = [kind |-> "eval", capacity |-> c,
                           charging |-> charging, chErr |-> (ch = "err"),
                           threshold |-> cfg[1].Threshold, writes |-> ws,
                           pending |-> unwritten]
                /\ pc' = IF writeErrorFatal(ws) THEN "fatal" ELSE pc
                /\ exitCause' = IF writeErrorFatal(ws) THEN "write" ELSE exitCause
                /\ UNCHANGED <<exitTrace, tickerStopped>>
    /\ UNCHANGED <<file, k, cfg, evt, wpc, parsed, sigChan, lastGood, swapped,
                   rng>>

(***************************************************************************)
(* SIGINT or SIGTERM arrives: signal.Notify puts it in sigChan unless the  *)
(* buffer (capacity 1) is full.                                            *)
(***************************************************************************)
Signal ==
    /\ pc = "loop"
    /\ sigChan = 0
    /\ sigChan' = 1
    /\ cyc' = NoCycle
    /\ UNCHANGED <<pc, exitCause, file, k, cfg, evt, wpc, parsed, interval,
                   tickerStopped, prevCapacity, switch, exitTrace,
                   unwritten, lastGood, swapped, rng>>

(***************************************************************************)
(* `case <-sigChan: return`: the deferred calls run and Execute returns.   *)
(***************************************************************************)
SignalCase ==
    /\ pc = "loop"
    /\ sigChan > 0
    /\ sigChan' = sigChan - 1
    /\ pc' = "done"
    /\ exitCause' = "signal"
    /\ exitTrace' = DeferredCalls
    /\ tickerStopped' = TRUE
    /\ cyc' = NoCycle
    /\ UNCHANGED <<file, k, cfg, evt, wpc, parsed, interval, prevCapacity,
                   switch, unwritten, lastGood, swapped, rng>>

(***************************************************************************)
(* The config file is written on disk; the watcher is notified.            *)
(***************************************************************************)
FileChange(f) ==
    /\ pc = "loop"
    /\ f # file
    /\ f.kind # "missing"
    /\ file' = f
    /\ evt' = TRUE
    /\ cyc' = NoCycle
    /\ UNCHANGED <<pc, exitCause, k, cfg, wpc, parsed, sigChan, interval,
                   tickerStopped, prevCapacity, switch, exitTrace,
                   unwritten, lastGood, swapped, rng>>

(***************************************************************************)
(* The watch callback called with err != nil (the watcher failed, or the   *)
(* file was removed): log and return.                                      *)
(***************************************************************************)
WatchError(removed) ==
    /\ pc = "loop"
    /\ wpc = "idle"
    /\ file' = IF removed THEN FileOf("missing", 0) ELSE file
    /\ cyc' = NoCycle
    /\ UNCHANGED <<pc, exitCause, k, cfg, evt, wpc, parsed, sigChan,
                   interval, tickerStopped, prevCapacity, switch, exitTrace,
                   unwritten, lastGood, swapped, rng>>

(***************************************************************************)
(* The watch callback called with err == nil, up to the return of          *)
(* parseConfig: k = koanf.New("."), k.Load, the handler that always        *)
(* returns true, k.Unmarshal (logCfgIssue on its error).                   *)
(***************************************************************************)
CallbackLoad ==
    /\ pc = "loop"
    /\ wpc = "idle"
    /\ evt
    /\ evt' = FALSE
    /\ cyc' = NoCycle
    /\ LET err == LoadErr(file)
           kk == LoadKeys(KEmpty, file)
           p == parseConfig(kk, reloadErrHandler(err))
       IN  /\ k' = kk
           /\ IF p.fatal
              THEN /\ pc' = "fatal"
                   /\ exitCause' = "reload"
                   /\ UNCHANGED <<wpc, parsed, lastGood>>
              ELSE /\ wpc' = "assign"
                   /\ parsed' = p.ret
                   /\ lastGood' = IF err = "nil" /\ p.ret # NilCfg
                                  THEN p.ret[1].Threshold ELSE lastGood
                   /\ UNCHANGED <<pc, exitCause>>
    /\ UNCHANGED <<file, cfg, sigChan, interval, tickerStopped, prevCapacity,
                   switch, exitTrace, unwritten, swapped, rng>>

(***************************************************************************)
(* cfg = parseConfig(...): the callback stores the returned pointer in     *)
(* the variable the loop reads.                                            *)
(***************************************************************************)
ReloadAssignShadowed(old, new) == old
ReloadAssign(old, new) == new

CallbackAssignResetsTicker ==
    /\ pc = "loop"
    /\ wpc = "assign"
    /\ cfg' = ReloadAssign(cfg, parsed)
    /\ swapped' = (cfg' # cfg)
    /\ wpc' = "idle"
    /\ parsed' = NilCfg
    /\ cyc' = NoCycle
    /\ interval' = InitialInterval
    /\ UNCHANGED <<pc, exitCause, file, k, evt, sigChan,
                   tickerStopped, prevCapacity, switch, exitTrace,
                   unwritten, lastGood, rng>>
CallbackAssign ==
    /\ pc = "loop"
    /\ wpc = "assign"
    /\ cfg' = ReloadAssign(cfg, parsed)
    /\ swapped' = (cfg' # cfg)
    /\ wpc' = "idle"
    /\ parsed' = NilCfg
    /\ cyc' = NoCycle
    /\ UNCHANGED <<pc, exitCause, file, k, evt, sigChan, interval,
                   tickerStopped, prevCapacity, switch, exitTrace,
                   unwritten, lastGood, rng>>

Next ==
    \/ \E dirOK, mkdirOK, marshalOK, writeOK, watchOK \in BOOLEAN :
          Execute(dirOK, mkdirOK, marshalOK, writeOK, watchOK)
    \/ PollReadError
    \/ \E c \in Caps, ch \in ChargingInputs, wOK \in BOOLEAN :
          PollCycle(c, ch, wOK)
    \/ Signal
    \/ SignalCase
    \/ \E f \in FileStates : FileChange(f)
    \/ \E removed \in BOOLEAN : WatchError(removed)
    \/ CallbackLoad
    \/ CallbackAssign

Spec == Init /\ [][Next]_vars

\* select takes a ready case: a signal waiting in sigChan is received
FairSpec == Spec /\ WF_vars(SignalCase)

(***************************************************************************)
(* inThresholdRange called on its own, on arguments from the whole range   *)
(* of uint.                                                                *)
(***************************************************************************)
RangeArgs == (0..MaxRangeArg) \cup {MaxUint - 1, MaxUint}

\* cfg.Threshold-1 wraps around
UintDecWraps(t) == t = 0

RangeInit ==
    /\ pc = "range"
    /\ exitCause = "none"
    /\ file = FileOf("missing", 0)
    /\ k = KEmpty
    /\ \E t \in RangeArgs : cfg = <<[Threshold |-> t]>>
    /\ evt = FALSE
    /\ wpc = "idle"
    /\ parsed = NilCfg
    /\ sigChan = 0
    /\ interval = 0
    /\ tickerStopped = FALSE
    /\ prevCapacity = 0
    /\ switch = "unset"
    /\ exitTrace = <<>>
    /\ cyc = NoCycle
    /\ unwritten = "none"
    /\ lastGood = 0
    /\ swapped = FALSE
    /\ \E c \in RangeArgs :
          rng = [NoRange EXCEPT !.state = "call", !.capacity = c,
                                !.threshold = cfg[1].Threshold]

RangeCheck ==
    /\ pc = "range"
    /\ rng.state = "call"
    /\ rng' = [rng EXCEPT !.state = "done",
                          !.result = inThresholdRange(rng.capacity, cfg),
                          !.wrapped = UintDecWraps(cfg[1].Threshold)]
    /\ UNCHANGED <<pc, exitCause, file, k, cfg, evt, wpc, parsed, sigChan,
                   interval, tickerStopped, prevCapacity, switch, exitTrace,
                   cyc, unwritten, lastGood, swapped>>

RangeNext == RangeCheck

RangeSpec == RangeInit /\ [][RangeNext]_vars

(***************************************************************************)
(* Properties.                                                             *)
(***************************************************************************)
Ended == pc \in {"done", "fatal", "panic"}
\* NewTicker has run: runDaemon reached its loop
LoopEntered == interval # 0
\* the last step was a poll cycle whose battery.Level() succeeded
ReadOK == cyc.kind \in {"skip", "eval", "panic"}

\* C1: a poll cycle whose capacity read succeeds with a value equal to
\* prevCapacity is skipped: it calls setConservationMode not at all and
\* leaves the ticker's period, prevCapacity and the control file as they
\* were, whatever the threshold and the charging state.
C1_EqualCapacitySkips ==
    [][(ReadOK' /\ cyc'.capacity = prevCapacity)
          => /\ cyc'.kind = "skip"
             /\ cyc'.writes = <<>>
             /\ UNCHANGED <<interval, prevCapacity, switch, unwritten>>]_vars

\* a skipped cycle at the threshold while charging, on the first-minute period
C1_Witness ==
    /\ cyc.kind = "skip"
    /\ cyc.charging
    /\ cfg # NilCfg
    /\ cfg[1].Threshold = cyc.capacity
    /\ cyc.capacity = prevCapacity
    /\ interval = Minute

\* C2: a non-skipped poll cycle with capacity == threshold (threshold 0
\* included) and charging calls setConservationMode(true), once, and
\* resets the ticker to 1 second.
C2_AtThresholdChargingPollsFast ==
    (cyc.kind = "eval" /\ cyc.capacity = cyc.threshold /\ cyc.charging)
        => /\ Len(cyc.writes) = 1
           /\ cyc.writes[1].val = "1"
           /\ interval = Second

\* C3: a non-skipped poll cycle with charging == false calls
\* setConservationMode(false) and nothing else, and resets the ticker to
\* 5 minutes, for any capacity and threshold.
C3_NotChargingDisables ==
    (cyc.kind = "eval" /\ ~cyc.charging)
        => /\ Len(cyc.writes) = 1
           /\ cyc.writes[1].val = "0"
           /\ interval = 5 * Minute

\* not charging, at the threshold, and the write went through
C3_Witness ==
    /\ cyc.kind = "eval"
    /\ ~cyc.charging
    /\ cyc.capacity = cyc.threshold
    /\ cyc.writes[1].ok
    /\ switch = "0"

\* C4: a non-skipped poll cycle with charging == true and capacity !=
\* threshold calls setConservationMode(true), once, and resets the ticker
\* to 5 minutes.
C4_ChargingOffThresholdEnables ==
    (cyc.kind = "eval" /\ cyc.charging /\ cyc.capacity # cyc.threshold)
        => /\ Len(cyc.writes) = 1
           /\ cyc.writes[1].val = "1"
           /\ interval = 5 * Minute

\* charging one percent below the threshold
C4_Witness ==
    /\ cyc.kind = "eval"
    /\ cyc.charging
    /\ cyc.capacity + 1 = cyc.threshold
    /\ cyc.writes[1].ok
    /\ switch = "1"

\* C5: once a termination signal is in sigChan, the loop eventually
\* returns and the shutdown line is logged.
C5_SignalLeadsToShutdownLog ==
    (sigChan > 0) ~> (pc = "done" /\ exitTrace # <<>> /\ "log" \in {exitTrace[i] : i \in 1..Len(exitTrace)})

\* C6: after a failed reload the loop keeps the last config that was
\* loaded and parsed without error: with no reload under way, a poll
\* cycle's range check uses that config's threshold.
C6_FailedReloadKeepsLastGood ==
    (cyc.kind = "eval" /\ wpc = "idle") => cyc.threshold = lastGood

\* C7: once the loop runs, only the termination signal ends it (and the
\* process).
C7_OnlySignalEndsLoop ==
    (LoopEntered /\ Ended) => exitCause = "signal"

\* C8 as claimed: after a failed write, the next poll cycle whose
\* capacity read succeeds writes again the value that failed, if the
\* charging state still asks for that value.
C8_NextReadRetriesWrite ==
    (cyc.kind \in {"skip", "eval"} /\ cyc.pending # "none"
        /\ EnabledBytes(cyc.charging) = cyc.pending)
        => /\ cyc.writes # <<>>
           /\ cyc.writes[1].val = cyc.pending

\* C8 as amended: after a failed write, a poll cycle that reads the
\* capacity the failed cycle read is skipped and writes nothing, the
\* failed value staying unwritten; a poll cycle that reads another
\* capacity writes, once, the value of its charging flag.
C8_ChangedCapacityRetriesWrite ==
    /\ (cyc.kind = "eval" /\ cyc.pending # "none")
          => /\ Len(cyc.writes) = 1
             /\ cyc.writes[1].val = EnabledBytes(cyc.charging)
    /\ (ReadOK /\ cyc.pending # "none" /\ cyc.kind # "eval")
          => /\ cyc.capacity = prevCapacity
             /\ cyc.writes = <<>>
             /\ unwritten = cyc.pending

\* the failed value is written again and reaches the control file
C8_Witness ==
    /\ cyc.kind = "eval"
    /\ cyc.pending = "1"
    /\ cyc.charging
    /\ cyc.writes[1].ok
    /\ switch = "1"
    /\ unwritten = "none"

\* C9 as claimed: however the daemon exits, ticker.Stop() runs once and
\* the shutdown line is logged after it.
C9_EveryExitStopsThenLogs ==
    (LoopEntered /\ Ended) => exitTrace = <<"stop", "log">>

\* C9 as amended: when the loop returns on a termination signal the
\* shutdown line is logged and then ticker.Stop() runs, each once (the
\* deferred calls run last in, first out); when runDaemon returns because
\* the watch could not be set up, or log.Fatalf ends the process, neither
\* runs.
C9_ReturnRunsDeferredCalls ==
    /\ (pc = "done" /\ exitCause = "signal")
          => (exitTrace = <<"log", "stop">> /\ tickerStopped)
    /\ (pc = "fatal" \/ (pc = "done" /\ exitCause = "watch"))
          => (exitTrace = <<>> /\ ~tickerStopped)
    /\ pc \in {"start", "loop"} => (exitTrace = <<>> /\ ~tickerStopped)

\* the loop has returned on a signal after at least one ticker reset
C9_Witness ==
    /\ pc = "done"
    /\ exitCause = "signal"
    /\ interval = 5 * Minute
    /\ tickerStopped

\* C10: once the watcher has reloaded a changed config file, the range
\* check of every poll cycle uses the file's threshold; a poll cycle
\* that runs while the callback is between parseConfig and the
\* assignment uses the whole old or the whole new config.
C10_PollUsesReloadedConfig ==
    /\ (cyc.kind = "eval" /\ wpc = "idle" /\ ~evt /\ file.kind = "ok")
          => cyc.threshold = file.threshold
    /\ (cyc.kind = "eval" /\ wpc = "assign")
          => <<[Threshold |-> cyc.threshold]>> \in {cfg, parsed}

\* a poll cycle at the reloaded threshold, which differs from the old one
C10_Witness ==
    /\ cyc.kind = "eval"
    /\ wpc = "idle"
    /\ ~evt
    /\ swapped
    /\ file.kind = "ok"
    /\ cyc.threshold = file.threshold
    /\ cyc.capacity = cyc.threshold
    /\ interval = Second

\* C11: a config reload (the watch callback) leaves the ticker's period,
\* prevCapacity and the control file alone and runs no poll cycle; the
\* ticker's period is changed only by a poll cycle of the loop.
C11_ReloadLeavesLoopStateAlone ==
    [][/\ (pc = "loop" /\ (cfg' # cfg \/ wpc' # wpc \/ k' # k
                             \/ parsed' # parsed \/ exitCause' = "reload"))
             => /\ UNCHANGED <<interval, prevCapacity, switch, unwritten,
                               tickerStopped>>
                /\ cyc'.kind = "none"
       /\ (pc = "loop" /\ interval' # interval) => cyc'.kind = "eval"]_vars

\* the callback has just changed the threshold; the 1-second period and
\* prevCapacity of an earlier cycle are still there
C11_Witness ==
    /\ pc = "loop"
    /\ wpc = "idle"
    /\ ~evt
    /\ swapped
    /\ cyc.kind = "none"
    /\ cfg[1].Threshold # prevCapacity
    /\ interval = Second
    /\ switch = "1"

\* C12: a poll cycle whose battery.Level() fails calls setConservationMode
\* not at all, leaves the ticker's period and prevCapacity as they were,
\* and the loop goes on.
C12_ReadErrorAbortsCycle ==
    [][cyc'.kind = "readerr"
          => /\ UNCHANGED <<interval, prevCapacity, switch, unwritten, cfg>>
             /\ cyc'.writes = <<>>
             /\ pc' = "loop"]_vars

\* a failed read after a cycle that set the 1-second period
C12_Witness ==
    /\ cyc.kind = "readerr"
    /\ pc = "loop"
    /\ interval = Second
    /\ prevCapacity # 0
    /\ switch = "1"

\* C13: a non-skipped poll cycle whose battery.IsCharging() fails goes on
\* with charging = false: prevCapacity is updated,
\* setConservationMode(false) is the only call and the ticker is reset to
\* 5 minutes.
C13_ChargingErrorMeansNotCharging ==
    (cyc.kind = "eval" /\ cyc.chErr)
        => /\ ~cyc.charging
           /\ prevCapacity = cyc.capacity
           /\ Len(cyc.writes) = 1
           /\ cyc.writes[1].val = "0"
           /\ interval = 5 * Minute
           /\ pc = "loop"

\* the charging read fails at the threshold, and "0" reaches the file
C13_Witness ==
    /\ cyc.kind = "eval"
    /\ cyc.chErr
    /\ cyc.capacity = cyc.threshold
    /\ cyc.capacity # 0
    /\ cyc.writes[1].ok
    /\ switch = "0"

\* C14: a failed write to the control file does not end the loop, and
\* every non-skipped cycle, its write failed or not, leaves prevCapacity
\* at the capacity read and the ticker's period at the value the range
\* check and the charging flag give.
C14_FailedWriteIsNotFatal ==
    /\ (cyc.kind = "eval" /\ cyc.writes # <<>> /\ ~cyc.writes[1].ok)
          => (pc = "loop" /\ exitCause = "none")
    /\ cyc.kind = "eval"
          => /\ prevCapacity = cyc.capacity
             /\ interval =
                  IF cyc.charging
                       /\ inThresholdRange(cyc.capacity,
                                           <<[Threshold |-> cyc.threshold]>>)
                  THEN Second ELSE 5 * Minute

\* the write of "1" at the threshold fails; the period is 1 second anyway
C14_Witness ==
    /\ cyc.kind = "eval"
    /\ ~cyc.writes[1].ok
    /\ unwritten = "1"
    /\ switch = "unset"
    /\ interval = Second
    /\ pc = "loop"

\* C15: when Execute finds no config file and is not ended by a fatal
\* config error, the config in memory has threshold 80, the file on disk
\* has been written with threshold 80, and the loop, when entered, starts
\* with that config.
C15_MissingFileGivesDefault ==
    [][(pc = "start" /\ file.kind = "missing" /\ pc' # "fatal")
          => /\ cfg' = <<[Threshold |-> DefaultThreshold]>>
             /\ file' = FileOf("ok", DefaultThreshold)
             /\ pc' \in {"loop", "done"}
             /\ pc' = "done" => exitCause' = "watch"]_vars

\* the loop has been entered right after the default file was written
C15_Witness ==
    /\ cyc.kind = "created"
    /\ pc = "loop"
    /\ cfg = <<[Threshold |-> DefaultThreshold]>>
    /\ file = FileOf("ok", DefaultThreshold)

\* C16: inThresholdRange(capacity, cfg) is true exactly when capacity ==
\* cfg.Threshold, for all uint arguments, and cfg.Threshold-1 does not
\* wrap around at threshold 0.
C16_RangeIsEquality ==
    rng.state = "done"
        => /\ rng.result <=> (rng.capacity = rng.threshold)
           /\ ~rng.wrapped

\* C17: the loop starts with a period of 1 minute and prevCapacity 0; the
\* ticker's period is always 1 second, 1 minute or 5 minutes; it changes
\* only in a non-skipped poll cycle.
C17_IntervalValues ==
    [][/\ (pc = "start" /\ pc' = "loop")
             => (interval' = Minute /\ prevCapacity' = 0)
       /\ (pc' = "loop" \/ exitCause' \in {"signal", "reload", "panic", "write"})
             => interval' \in {Second, Minute, 5 * Minute}
       /\ (pc = "loop" /\ interval' # interval) => cyc'.kind = "eval"
       /\ cyc'.kind \in {"skip", "readerr"} => interval' = interval]_vars

\* a skipped cycle on the period the loop started with
C17_Witness ==
    /\ pc = "loop"
    /\ cyc.kind = "skip"
    /\ cyc.capacity # 0
    /\ interval = 5 * Minute

\* C18: the value a poll cycle writes is "1" if charging and "0" if not,
\* whatever the threshold: the cycle's setConservationMode calls are the
\* same under every other threshold.
C18_WriteFollowsCharging ==
    /\ cyc.kind = "eval"
          => /\ Len(cyc.writes) = 1
             /\ cyc.writes[1].val = EnabledBytes(cyc.charging)
             /\ \A t \in Thresholds :
                   Decide(cyc.capacity, cyc.charging, <<[Threshold |-> t]>>).calls
                      = <<cyc.charging>>
    /\ cyc.kind # "eval" => cyc.writes = <<>>

\* charging off the threshold, after a reload changed the threshold
C18_Witness ==
    /\ cyc.kind = "eval"
    /\ swapped
    /\ cyc.charging
    /\ cyc.capacity # cyc.threshold
    /\ cyc.writes[1].ok
    /\ switch = "1"

\* C19: a write to the control file and a reset of the ticker happen only
\* in a poll cycle whose capacity differs from prevCapacity; a cycle that
\* reads the same capacity changes neither, whatever the charging state.
C19_OnlyCapacityChangeActs ==
    [][/\ (pc = "loop" /\ (switch' # switch \/ interval' # interval
                             \/ unwritten' # unwritten \/ cyc'.writes # <<>>))
             => (cyc'.kind = "eval" /\ cyc'.capacity # prevCapacity)
       /\ (ReadOK' /\ cyc'.capacity = prevCapacity)
             => UNCHANGED <<switch, interval, unwritten>>]_vars

\* held at the threshold with 1-second polling, the charger unplugged:
\* mode "1" and the period stay
C19_Witness ==
    /\ cyc.kind = "skip"
    /\ ~cyc.charging
    /\ cfg[1].Threshold = cyc.capacity
    /\ switch = "1"
    /\ interval = Second

\* C20: the loop never runs with cfg == nil: whenever parseConfig would
\* return nil the process has been ended by log.Fatalf, so runDaemon is
\* never called with nil, the callback never stores nil, and
\* inThresholdRange never dereferences nil.
C20_CfgNeverNil ==
    /\ (pc = "loop" \/ exitCause \in {"watch", "signal"}) => cfg # NilCfg
    /\ wpc = "assign" => parsed # NilCfg
    /\ pc # "panic"
    /\ cyc.kind # "panic"

\* parseConfig reached its `return nil` after logCfgIssue in a reload: the
\* process is gone and cfg was never set to nil
C20_Witness ==
    /\ pc = "fatal"
    /\ exitCause = "reload"
    /\ k.kind = "badtype"
    /\ cfg # NilCfg

====
